---------------------------- MODULE Spec2Model ----------------------------
(***************************************************************************)
(* A model of icctool.py: the ICC profile header codec, the tag element   *)
(* codec, the tag table / profile assembly and the copyright removal.     *)
(*                                                                         *)
(* Python bytes objects and ASCII strings are sequences of byte values     *)
(* (0..255); a Python tuple is a TLA+ tuple; a Python dict, which keeps    *)
(* insertion order, is a sequence of <<key, value>> pairs.  A call that   *)
(* may raise returns a record whose field err is "" on normal return and  *)
(* the name of the exception otherwise.                                    *)
(*                                                                         *)
(* TLC integers are 32 bits wide: the sample inputs keep every unsigned    *)
(* 32-bit field below 2^31.                                                *)
(***************************************************************************)
EXTENDS Integers, Sequences, FiniteSets, TLC

VARIABLES
    blob,       \* the input bytes handed to the parser
    pc,         \* "init", "parsed", "parse_failed", "packed", "pack_failed",
                \* "round_trip", "round_trip_failed"
    profile,    \* the ICCProfile object (header, tag_count, tag_table, elements)
    tag,        \* the ICCTag object of the element codec runs
    hdr,        \* the ICCHeader object of the header codec runs
    output,     \* the bytes produced by the last pack / write
    last,       \* the last call: [op, err]
    edited,     \* TRUE once remove_copyright has been called on the profile
    force_version_number,   \* the version override string, << >> for None
    number,         \* the (whole, frac) pair handed to a fixed-point packer
    parsed_number   \* the pair a fixed-point parser returned

vars == <<blob, pc, profile, tag, hdr, output, last, edited,
          force_version_number, number, parsed_number>>

(***************************************************************************)
(* Bounds of the model.                                                    *)
(***************************************************************************)
MaxTags == 3        \* longest tag directory of the sample profiles

(***************************************************************************)
(* Python slices and struct formats.                                       *)
(***************************************************************************)
Min2(a, b) == IF a < b THEN a ELSE b

\* The element of a one-element set.  Only({e(x) : x \in {v}}) is e(v) with v
\* evaluated once: it stands for a Python local variable assigned once and
\* read several times.
Only(S) == CHOOSE x \in S : TRUE

\* b[i:j] for 0 <= i: clamped to the length of b, never an error
Slice(b, i, j) ==
    IF i >= Len(b) \/ j <= i THEN << >> ELSE SubSeq(b, i + 1, Min2(j, Len(b)))

\* b[i:]
SliceFrom(b, i) == Slice(b, i, Len(b))

Zeros(n) == [k \in 1..n |-> 0]

\* bytes.decode("ascii") raises UnicodeDecodeError on a byte above 127
IsAscii(b) == \A k \in 1..Len(b) : b[k] < 128

\* struct.unpack(">B" / ">H" / ">h" / ">I", b)[0]; struct.error unless len(b) fits
U8(b) == b[1]
U16(b) == b[1] * 256 + b[2]
S16(b) == IF U16(b) >= 32768 THEN U16(b) - 65536 ELSE U16(b)
U32(b) == ((b[1] * 256 + b[2]) * 256 + b[3]) * 256 + b[4]

\* struct.pack("!B" / "!H" / "!h" / "!I", n); struct.error when n is out of range
PackU8(n) == <<n>>
PackU16(n) == <<n \div 256, n % 256>>
PackS16(n) == PackU16(IF n < 0 THEN n + 65536 ELSE n)
PackU32(n) == <<n \div 16777216, (n \div 65536) % 256, (n \div 256) % 256, n % 256>>
FitsU8(n) == n >= 0 /\ n <= 255
FitsU16(n) == n >= 0 /\ n <= 65535
FitsS16(n) == n >= -32768 /\ n <= 32767
FitsU32(n) == n >= 0

\* struct.pack("<n>s", s): s cut to n bytes, or padded with NUL bytes to n bytes
PackS(s, n) == [k \in 1..n |-> IF k <= Len(s) THEN s[k] ELSE 0]

\* str.strip("\x00"): NUL characters removed at both ends
RECURSIVE LStripNul(_)
LStripNul(s) == IF s # << >> /\ Head(s) = 0 THEN LStripNul(Tail(s)) ELSE s
RECURSIVE RStripNul(_)
RStripNul(s) ==
    IF s # << >> /\ s[Len(s)] = 0 THEN RStripNul(SubSeq(s, 1, Len(s) - 1)) ELSE s
StripNul(s) == RStripNul(LStripNul(s))

\* concatenation of a sequence of byte strings
RECURSIVE ConcatFrom(_, _)
ConcatFrom(ss, k) == IF k > Len(ss) THEN << >> ELSE ss[k] \o ConcatFrom(ss, k + 1)
Concat(ss) == Only({ConcatFrom(v, 1) : v \in {ss}})

(***************************************************************************)
(* Signatures (ASCII).                                                     *)
(***************************************************************************)
SIG_acsp == <<97, 99, 115, 112>>
SIG_cprt == <<99, 112, 114, 116>>
SIG_wtpt == <<119, 116, 112, 116>>
SIG_text == <<116, 101, 120, 116>>
SIG_desc == <<100, 101, 115, 99>>
SIG_mluc == <<109, 108, 117, 99>>
SIG_XYZ  == <<88, 89, 90, 32>>
SIG_sf32 == <<115, 102, 51, 50>>
SIG_curv == <<99, 117, 114, 118>>
SIG_para == <<112, 97, 114, 97>>
SIG_chrm == <<99, 104, 114, 109>>
SIG_data == <<100, 97, 116, 97>>

\* TAG_ELEMENT_TABLE / read_tag_element_table: signature -> element name, or "None"
element_table(sig) ==
    CASE sig = SIG_text -> "textType"
      [] sig = SIG_desc -> "textDescriptionType"
      [] sig = SIG_mluc -> "multiLocalizedUnicodeType"
      [] sig = SIG_XYZ  -> "XYZType"
      [] sig = SIG_sf32 -> "s15Fixed16ArrayType"
      [] sig = SIG_curv -> "curveType"
      [] sig = SIG_para -> "parametricCurveType"
      [] sig = SIG_chrm -> "chromaticityType"
      [] OTHER -> "None"

(***************************************************************************)
(* Fixed-point numbers.                                                    *)
(***************************************************************************)
\* both parsers need the 4 bytes: struct.error otherwise
parse_s15Fixed16Number(b) == <<S16(Slice(b, 0, 2)), U16(Slice(b, 2, 4))>>
parse_u16Fixed16Number(b) == <<U16(Slice(b, 0, 2)), U16(Slice(b, 2, 4))>>
pack_s15Fixed16Number_swapped(n) == PackU16(n[2]) \o PackS16(n[1])
pack_s15Fixed16Number(n) == PackS16(n[1]) \o PackU16(n[2])

\* the second definition of pack_u16Fixed16Number (the classmethod) is the one
\* the class keeps; it reads the undefined name s15Fixed: NameError on every call
pack_u16Fixed16Number(n) == [err |-> "NameError", bytes |-> << >>]

parse_XYZNumber(b) ==
    <<parse_s15Fixed16Number(Slice(b, 0, 4)),
      parse_s15Fixed16Number(Slice(b, 4, 8)),
      parse_s15Fixed16Number(Slice(b, 8, 12))>>
pack_XYZNumber(xyz) ==
    pack_s15Fixed16Number(xyz[1]) \o pack_s15Fixed16Number(xyz[2])
        \o pack_s15Fixed16Number(xyz[3])

(***************************************************************************)
(* ICCHeader.                                                              *)
(***************************************************************************)
parse_VersionNumber(b) ==
    LET n == U32(b)
    IN  <<(n \div 16777216) % 256, (n \div 1048576) % 16, (n \div 65536) % 16,
          n % 65536>>

\* a | b of two non-negative integers
RECURSIVE BitOr(_, _)
BitOr(a, b) ==
    IF a = 0 THEN b
    ELSE IF b = 0 THEN a
    ELSE 2 * BitOr(a \div 2, b \div 2) + (IF a % 2 = 1 \/ b % 2 = 1 THEN 1 ELSE 0)

\* struct.pack("!BBH", major, (minor << 4) | bug_fix, rem)
pack_VersionNumber(v) ==
    LET second_byte == BitOr(v[2] * 16, v[3])
    IN  IF FitsU8(v[1]) /\ FitsU8(second_byte) /\ FitsU16(v[4])
        THEN [err |-> "", bytes |-> PackU8(v[1]) \o PackU8(second_byte) \o PackU16(v[4])]
        ELSE [err |-> "struct.error", bytes |-> << >>]

\* str.split("."): the pieces between the dots, scanned from character k on
\* with piece the characters seen since the last dot
RECURSIVE split_dot(_, _, _)
split_dot(str, k, piece) ==
    IF k > Len(str) THEN <<piece>>
    ELSE IF str[k] = 46 THEN <<piece>> \o split_dot(str, k + 1, << >>)
    ELSE split_dot(str, k + 1, Append(piece, str[k]))

\* int(v) for a string of decimal digits; ValueError on an empty string and on
\* any other character of the override strings of this model (letters)
IsDigits(v) == v # << >> /\ \A k \in 1..Len(v) : v[k] \in 48..57
RECURSIVE int(_)
int(v) == IF v = << >> THEN 0 ELSE int(SubSeq(v, 1, Len(v) - 1)) * 10 + (v[Len(v)] - 48)

\* set_VersionNumber: [err, version]; ValueError when a piece is no integer
\* or when the list does not unpack into three names
set_VersionNumber_swapped(version_str) ==
    Only({IF (\E k \in 1..Len(pieces) : ~IsDigits(pieces[k])) \/ Len(pieces) # 3
          THEN [err |-> "ValueError", version |-> << >>]
          ELSE [err |-> "",
                version |-> <<int(pieces[1]), int(pieces[3]), int(pieces[2]), 0>>] :
          pieces \in {split_dot(version_str, 1, << >>)}})
set_VersionNumber(version_str) ==
    Only({IF (\E k \in 1..Len(pieces) : ~IsDigits(pieces[k])) \/ Len(pieces) # 3
          THEN [err |-> "ValueError", version |-> << >>]
          ELSE [err |-> "",
                version |-> <<int(pieces[1]), int(pieces[2]), int(pieces[3]), 0>>] :
          pieces \in {split_dot(version_str, 1, << >>)}})

parse_dateTimeNumber(b) ==
    [k \in 1..6 |-> U16(Slice(b, 2 * (k - 1), 2 * k))]
pack_dateTimeNumber(d) ==
    PackU16(d[1]) \o PackU16(d[2]) \o PackU16(d[3]) \o PackU16(d[4])
        \o PackU16(d[5]) \o PackU16(d[6])

NoHeader == [profile_size |-> 0]

HeaderError(e) == [err |-> e, header |-> NoHeader, i |-> 0]

\* ICCHeader.parse, in the order of its reads: the unpacks up to the date need
\* blob[0:36], the assert reads blob[36:40], the last unpack reads blob[80:84];
\* what follows byte 84 (profile_id, reserved) is sliced, never unpacked.
\* force is force_version_number: a string, or << >> for None
ICCHeader_parse(b, force) ==
    IF Len(b) < 12 THEN HeaderError("struct.error")
    ELSE IF force # << >> /\ set_VersionNumber(force).err # ""
        THEN HeaderError(set_VersionNumber(force).err)
    ELSE IF ~IsAscii(Slice(b, 12, 24)) THEN HeaderError("UnicodeDecodeError")
    ELSE IF Len(b) < 36 THEN HeaderError("struct.error")
    ELSE IF ~IsAscii(Slice(b, 36, 40)) THEN HeaderError("UnicodeDecodeError")
    ELSE IF Slice(b, 36, 40) # SIG_acsp THEN HeaderError("AssertionError")
    ELSE IF ~IsAscii(Slice(b, 40, 44)) THEN HeaderError("UnicodeDecodeError")
    ELSE IF Len(b) < 84 THEN HeaderError("struct.error")
    ELSE
        [err |-> "",
         header |->
            [profile_size |-> U32(Slice(b, 0, 4)),
             preferred_cmm_type |-> U32(Slice(b, 4, 8)),
             profile_version_number |->
                IF force # << >> THEN set_VersionNumber(force).version
                ELSE parse_VersionNumber(Slice(b, 8, 12)),
             profile_device_class |-> Slice(b, 12, 16),
             color_space |-> Slice(b, 16, 20),
             profile_connection_space |-> Slice(b, 20, 24),
             date_and_time |-> parse_dateTimeNumber(Slice(b, 24, 36)),
             profile_file_signature |-> Slice(b, 36, 40),
             primary_platform_signature |-> Slice(b, 40, 44),
             profile_flags |-> U32(Slice(b, 44, 48)),
             device_manufacturer |-> U32(Slice(b, 48, 52)),
             device_model |-> U32(Slice(b, 52, 56)),
             device_attributes |-> Slice(b, 56, 64),
             rendering_intent |-> U32(Slice(b, 64, 68)),
             xyz_illuminant |-> parse_XYZNumber(Slice(b, 68, 80)),
             profile_creator_field |-> U32(Slice(b, 80, 84)),
             profile_id |-> Slice(b, 84, 100),
             reserved |-> Slice(b, 100, 128)],
         i |-> 128]

\* the struct format item of xyz_illuminant in ICCHeader.pack: "s" without a
\* count is "1s", one byte
XyzFormatItem(xyz_bytes) == PackS(xyz_bytes, 1)

\* ICCHeader.pack: every string item is packed at its own length
ICCHeader_pack(h) ==
    LET v == pack_VersionNumber(h.profile_version_number)
    IN  IF v.err # "" THEN v
        ELSE IF ~FitsU32(h.profile_size) THEN [err |-> "struct.error", bytes |-> << >>]
        ELSE [err |-> "",
              bytes |->
                PackU32(h.profile_size) \o PackU32(h.preferred_cmm_type) \o v.bytes
                \o h.profile_device_class \o h.color_space
                \o h.profile_connection_space
                \o pack_dateTimeNumber(h.date_and_time)
                \o h.profile_file_signature \o h.primary_platform_signature
                \o PackU32(h.profile_flags) \o PackU32(h.device_manufacturer)
                \o PackU32(h.device_model) \o h.device_attributes
                \o PackU32(h.rendering_intent)
                \o XyzFormatItem(pack_XYZNumber(h.xyz_illuminant))
                \o PackU32(h.profile_creator_field) \o h.profile_id \o h.reserved]

(***************************************************************************)
(* ICCTag: the element parsers.  Each returns [err, tag]; the tag of a     *)
(* failed parse is NoTag.                                                   *)
(***************************************************************************)
NoTag == [element_size |-> 0]
TagError(e) == [err |-> e, tag |-> NoTag]

parse_UnimplementedType_rest(b) ==
    [err |-> "",
     tag |-> [element_size |-> Len(b),
              element_signature |-> Slice(b, 0, 4),
              remaining |-> SliceFrom(b, 4)]]
parse_UnimplementedType(b) ==
    [err |-> "",
     tag |-> [element_size |-> Len(b),
              element_signature |-> Slice(b, 0, 4),
              remaining |-> SliceFrom(b, 0)]]

parse_textType(b) ==
    IF Len(b) < 8 THEN TagError("struct.error")
    ELSE IF ~IsAscii(SliceFrom(b, 8)) THEN TagError("UnicodeDecodeError")
    ELSE [err |-> "",
          tag |-> [element_size |-> Len(b),
                   element_signature |-> Slice(b, 0, 4),
                   reserved |-> U32(Slice(b, 4, 8)),
                   text |-> SliceFrom(b, 8)]]

\* the loop reads two 4-byte numbers per channel from byte 12 on
parse_chromaticityType(b) ==
    IF Len(b) < 12 THEN TagError("struct.error")
    ELSE LET n == U16(Slice(b, 8, 10))
         IN  IF Len(b) < 12 + 8 * n THEN TagError("struct.error")
             ELSE [err |-> "",
                   tag |-> [element_size |-> Len(b),
                            element_signature |-> Slice(b, 0, 4),
                            reserved |-> U32(Slice(b, 4, 8)),
                            num_device_channels |-> n,
                            phosphor_colorant_type |-> U16(Slice(b, 10, 12)),
                            cie_xy_coordinates |->
                                [k \in 1..n |->
                                    <<parse_u16Fixed16Number(Slice(b, 4 + 8 * k, 8 + 8 * k)),
                                      parse_u16Fixed16Number(Slice(b, 8 + 8 * k, 12 + 8 * k))>>]]]

parse_curveType(b) ==
    IF Len(b) < 12 THEN TagError("struct.error")
    ELSE LET n == U32(Slice(b, 8, 12))
         IN  IF Len(b) < 12 + 2 * n THEN TagError("struct.error")
             ELSE [err |-> "",
                   tag |-> [element_size |-> Len(b),
                            element_signature |-> Slice(b, 0, 4),
                            reserved |-> U32(Slice(b, 4, 8)),
                            curve_count |-> n,
                            curve_value |->
                                [k \in 1..n |-> U16(Slice(b, 10 + 2 * k, 12 + 2 * k))]]]

parse_textDescriptionType(b) ==
    IF Len(b) < 12 THEN TagError("struct.error")
    ELSE LET alen == U32(Slice(b, 8, 12))
             i1 == 12 + alen
         IN  IF Len(b) < i1 THEN TagError("struct.error")
             ELSE IF ~IsAscii(Slice(b, 12, i1)) THEN TagError("UnicodeDecodeError")
             ELSE IF Len(b) < i1 + 8 THEN TagError("struct.error")
             ELSE LET ulen == U32(Slice(b, i1 + 4, i1 + 8))
                      i2 == i1 + 8 + ulen
                  IN  IF Len(b) < i2 + 3 THEN TagError("struct.error")
                      ELSE [err |-> "",
                            tag |-> [element_size |-> Len(b),
                                     element_signature |-> Slice(b, 0, 4),
                                     reserved |-> U32(Slice(b, 4, 8)),
                                     ascii_length |-> alen,
                                     ascii_invariant_description |->
                                         StripNul(Slice(b, 12, i1)),
                                     unicode_language_code |-> U32(Slice(b, i1, i1 + 4)),
                                     unicode_length |-> ulen,
                                     unicode_localizable_description |->
                                         Slice(b, i1 + 8, i2),
                                     scriptcode_code |-> U16(Slice(b, i2, i2 + 2)),
                                     macintosh_length |-> U8(Slice(b, i2 + 2, i2 + 3)),
                                     macintosh_description |-> Slice(b, i2 + 3, i2 + 70),
                                     rem |-> SliceFrom(b, i2 + 70)]]

\* the while loop calls parse_XYZNumber(blob[i:]) while i < len(blob), 12 bytes
\* a step: a last step with fewer than 12 bytes raises struct.error
parse_XYZType(b) ==
    IF Len(b) < 8 THEN TagError("struct.error")
    ELSE IF (Len(b) - 8) % 12 # 0 THEN TagError("struct.error")
    ELSE [err |-> "",
          tag |-> [element_size |-> Len(b),
                   element_signature |-> Slice(b, 0, 4),
                   reserved |-> U32(Slice(b, 4, 8)),
                   numbers |->
                       [k \in 1..((Len(b) - 8) \div 12) |->
                           parse_XYZNumber(SliceFrom(b, 12 * k - 4))]]]

parse_s15Fixed16ArrayType(b) ==
    IF Len(b) < 8 THEN TagError("struct.error")
    ELSE IF (Len(b) - 8) % 4 # 0 THEN TagError("struct.error")
    ELSE [err |-> "",
          tag |-> [element_size |-> Len(b),
                   element_signature |-> Slice(b, 0, 4),
                   reserved |-> U32(Slice(b, 4, 8)),
                   numbers |->
                       [k \in 1..((Len(b) - 8) \div 4) |->
                           parse_s15Fixed16Number(Slice(b, 4 + 4 * k, 8 + 4 * k))]]]

\* NUM_PARAMETERS; a selector that is no key raises KeyError
NUM_PARAMETERS_one_less(encoded_value) ==
    CASE encoded_value = 0 -> 1
      [] encoded_value = 1 -> 3
      [] encoded_value = 2 -> 4
      [] encoded_value = 3 -> 5
      [] encoded_value = 4 -> 6
      [] OTHER -> -1
NUM_PARAMETERS(encoded_value) ==
    CASE encoded_value = 0 -> 1
      [] encoded_value = 1 -> 3
      [] encoded_value = 2 -> 4
      [] encoded_value = 3 -> 5
      [] encoded_value = 4 -> 7
      [] OTHER -> -1

parse_parametricCurveType(b) ==
    IF Len(b) < 12 THEN TagError("struct.error")
    ELSE LET ev == U16(Slice(b, 8, 10))
             n == NUM_PARAMETERS(ev)
         IN  IF n < 0 THEN TagError("KeyError")
             ELSE IF Len(b) < 12 + 4 * n THEN TagError("struct.error")
             ELSE [err |-> "",
                   tag |-> [element_size |-> Len(b),
                            element_signature |-> Slice(b, 0, 4),
                            reserved |-> U32(Slice(b, 4, 8)),
                            encoded_value |-> ev,
                            reserved2 |-> U16(Slice(b, 10, 12)),
                            parameters |->
                                [k \in 1..n |->
                                    parse_s15Fixed16Number(Slice(b, 8 + 4 * k, 12 + 4 * k))]]]

\* bytes.decode("utf-16be"): the content is kept as its sequence of 16-bit code
\* units; an odd length or an unpaired surrogate raises UnicodeDecodeError
Utf16Units(b) == [k \in 1..(Len(b) \div 2) |-> U16(Slice(b, 2 * k - 2, 2 * k))]
IsHighSurrogate(u) == u >= 55296 /\ u <= 56319
IsLowSurrogate(u) == u >= 56320 /\ u <= 57343
Utf16Valid(b) ==
    /\ Len(b) % 2 = 0
    /\ LET u == Utf16Units(b)
       IN  \A k \in 1..Len(u) :
            /\ IsHighSurrogate(u[k]) => (k < Len(u) /\ IsLowSurrogate(u[k + 1]))
            /\ IsLowSurrogate(u[k]) => (k > 1 /\ IsHighSurrogate(u[k - 1]))
\* str.encode("utf-16be")
Utf16Encode(u) == Concat([k \in 1..Len(u) |-> PackU16(u[k])])

\* the loop over the name records of parse_multiLocalizedUnicodeType, from
\* record name_index on with the read position at i: [err, names, i]
RECURSIVE parse_mluc_names(_, _, _, _, _)
parse_mluc_names(b, number_of_names, name_index, i, names) ==
    IF name_index >= number_of_names THEN [err |-> "", names |-> names, i |-> i]
    ELSE IF Len(b) < i + 4 THEN [err |-> "struct.error", names |-> names, i |-> i]
    ELSE IF ~IsAscii(Slice(b, i + 4, i + 8))
        THEN [err |-> "UnicodeDecodeError", names |-> names, i |-> i]
    ELSE IF Len(b) < i + 16 THEN [err |-> "struct.error", names |-> names, i |-> i]
    ELSE Only({
            IF ~Utf16Valid(Slice(b, offset, offset + length))
            THEN [err |-> "UnicodeDecodeError", names |-> names, i |-> i]
            ELSE Only({parse_mluc_names(b, number_of_names, name_index + 1,
                                        i + 16 + length, new_names) :
                       new_names \in {Append(names,
                            <<U32(Slice(b, i, i + 4)), Slice(b, i + 4, i + 6),
                              Slice(b, i + 6, i + 8), length, offset,
                              Utf16Units(Slice(b, offset, offset + length))>>)}}) :
            length \in {U32(Slice(b, i + 8, i + 12))},
            offset \in {U32(Slice(b, i + 12, i + 16))}})

parse_multiLocalizedUnicodeType(b) ==
    IF Len(b) < 12 THEN TagError("struct.error")
    ELSE Only({IF r.err # "" THEN TagError(r.err)
               ELSE [err |-> "",
                     tag |-> [element_size |-> Len(b),
                              element_signature |-> Slice(b, 0, 4),
                              reserved |-> U32(Slice(b, 4, 8)),
                              number_of_names |-> U32(Slice(b, 8, 12)),
                              names |-> r.names,
                              rem |-> SliceFrom(b, r.i)]] :
               r \in {parse_mluc_names(b, U32(Slice(b, 8, 12)), 0, 12, << >>)}})

\* the dispatch of ICCTag.parse on the element name: getattr(cls, "parse_" + name)
element_parser(name, b) ==
    CASE name = "textType" -> parse_textType(b)
      [] name = "textDescriptionType" -> parse_textDescriptionType(b)
      [] name = "multiLocalizedUnicodeType" -> parse_multiLocalizedUnicodeType(b)
      [] name = "XYZType" -> parse_XYZType(b)
      [] name = "s15Fixed16ArrayType" -> parse_s15Fixed16ArrayType(b)
      [] name = "curveType" -> parse_curveType(b)
      [] name = "parametricCurveType" -> parse_parametricCurveType(b)
      [] name = "chromaticityType" -> parse_chromaticityType(b)
      [] OTHER -> parse_UnimplementedType(b)

\* ICCTag.parse: the element signature is read from the payload; the directory
\* signature only adds a warning and the three header_* attributes
\* the keys of TAG_HEADER_TABLE among the directory signatures of this model
header_table_has(header_signature) ==
    header_signature \in {SIG_cprt, SIG_wtpt, SIG_desc}

\* ICCTag.parse on a signature that is no key of the header table: a warning
\* is printed, nothing is raised ("" is no exception)
unknown_signature_raised(header_signature) ==
    IF header_table_has(header_signature) THEN "" ELSE "KeyError"
unknown_signature(header_signature) == ""

ICCTag_parse(header_signature, header_offset, header_size, b) ==
    IF unknown_signature(header_signature) # ""
        THEN TagError(unknown_signature(header_signature))
    ELSE IF ~IsAscii(Slice(b, 0, 4)) THEN TagError("UnicodeDecodeError")
    ELSE Only({IF r.err # "" THEN r
               ELSE [err |-> "",
                     tag |-> [header_signature |-> header_signature,
                              header_offset |-> header_offset,
                              header_size |-> header_size] @@ r.tag] :
               r \in {element_parser(element_table(Slice(b, 0, 4)), b)}})

(***************************************************************************)
(* ICCTag: the element packers.  Each returns [err, bytes].                *)
(***************************************************************************)
Packed(bytes) == [err |-> "", bytes |-> bytes]
PackError(e) == [err |-> e, bytes |-> << >>]

pack_UnimplementedType(t) == Packed(t.remaining)

pack_textType(t) ==
    Packed(t.element_signature \o PackU32(t.reserved) \o t.text)

\* the loop body reads the undefined name number: NameError at the first
\* coordinate; without coordinates the 12 bytes packed before the loop return
pack_chromaticityType(t) ==
    IF Len(t.cie_xy_coordinates) > 0 THEN PackError("NameError")
    ELSE Packed(t.element_signature \o PackU32(t.reserved)
                    \o PackU16(t.num_device_channels)
                    \o PackU16(t.phosphor_colorant_type))

pack_curveType(t) ==
    Packed(t.element_signature \o PackU32(t.reserved) \o PackU32(t.curve_count)
               \o Concat([k \in 1..Len(t.curve_value) |-> PackU16(t.curve_value[k])]))

pack_textDescriptionType(t) ==
    Packed(t.element_signature \o PackU32(t.reserved) \o PackU32(t.ascii_length)
               \o PackS(t.ascii_invariant_description, t.ascii_length)
               \o PackU32(t.unicode_language_code) \o PackU32(t.unicode_length)
               \o PackS(t.unicode_localizable_description, t.unicode_length)
               \o PackU16(t.scriptcode_code) \o PackU8(t.macintosh_length)
               \o t.macintosh_description \o t.rem)

pack_XYZType(t) ==
    Packed(t.element_signature \o PackU32(t.reserved)
               \o Concat([k \in 1..Len(t.numbers) |-> pack_XYZNumber(t.numbers[k])]))

\* one name record: the six fields, the content bytes right after them
pack_mluc_name(name) ==
    PackU32(name[1]) \o name[2] \o name[3] \o PackU32(name[4]) \o PackU32(name[5])
        \o Utf16Encode(name[6])

pack_multiLocalizedUnicodeType(t) ==
    Packed(t.element_signature \o PackU32(t.reserved) \o PackU32(t.number_of_names)
               \o Concat([k \in 1..Len(t.names) |-> pack_mluc_name(t.names[k])])
               \o t.rem)

pack_s15Fixed16ArrayType(t) ==
    Packed(t.element_signature \o PackU32(t.reserved)
               \o Concat([k \in 1..Len(t.numbers) |-> pack_s15Fixed16Number(t.numbers[k])]))

pack_parametricCurveType(t) ==
    Packed(t.element_signature \o PackU32(t.reserved) \o PackU16(t.encoded_value)
               \o PackU16(t.reserved2)
               \o Concat([k \in 1..Len(t.parameters) |->
                             pack_s15Fixed16Number(t.parameters[k])]))

\* ICCTag.pack: the dispatch on the element name of the tag's own signature
ICCTag_pack(t) ==
    LET name == element_table(t.element_signature)
    IN  CASE name = "textType" -> pack_textType(t)
          [] name = "textDescriptionType" -> pack_textDescriptionType(t)
          [] name = "multiLocalizedUnicodeType" -> pack_multiLocalizedUnicodeType(t)
          [] name = "XYZType" -> pack_XYZType(t)
          [] name = "s15Fixed16ArrayType" -> pack_s15Fixed16ArrayType(t)
          [] name = "curveType" -> pack_curveType(t)
          [] name = "parametricCurveType" -> pack_parametricCurveType(t)
          [] name = "chromaticityType" -> pack_chromaticityType(t)
          [] OTHER -> pack_UnimplementedType(t)

(***************************************************************************)
(* The element pool, profile.elements: a dict keyed by offset, kept as the *)
(* sequence of its <<offset, value>> items in insertion order.  A value is *)
(* [list |-> FALSE, tag |-> t] for an ICCTag object and                    *)
(* [list |-> TRUE, tags |-> <<t1, t2, ...>>] for a Python list of them.    *)
(***************************************************************************)
DictKeys(d) == {d[k][1] : k \in 1..Len(d)}
DictHas(d, key) == key \in DictKeys(d)
DictIndex(d, key) == CHOOSE k \in 1..Len(d) : d[k][1] = key
DictGet(d, key) == d[DictIndex(d, key)][2]
\* d[key] = value: a new key goes last, an old key keeps its place
DictSet(d, key, value) ==
    IF DictHas(d, key) THEN [d EXCEPT ![DictIndex(d, key)] = <<key, value>>]
    ELSE Append(d, <<key, value>>)
\* del d[key]
DictDel(d, key) ==
    Only({SubSeq(d, 1, k - 1) \o SubSeq(d, k + 1, Len(d)) : k \in {DictIndex(d, key)}})

(***************************************************************************)
(* ICCProfile.parse.                                                       *)
(***************************************************************************)
NoProfile == [tag_count |-> 0]

\* a pool that keeps the last tag parsed at an offset instead of a list
pool_insert_overwrite(elements, header_offset, t) ==
    DictSet(elements, header_offset, [list |-> FALSE, tag |-> t])

\* lines 1316-1325: the pool entry after a tag was parsed at header_offset
pool_insert(elements, header_offset, t) ==
    IF DictHas(elements, header_offset) THEN
        Only({IF cur.list
              THEN DictSet(elements, header_offset,
                           [list |-> TRUE, tags |-> Append(cur.tags, t)])
              ELSE DictSet(elements, header_offset,
                           [list |-> TRUE, tags |-> <<cur.tag, t>>]) :
              cur \in {DictGet(elements, header_offset)}})
    ELSE DictSet(elements, header_offset, [list |-> FALSE, tag |-> t])

\* the loop over the directory, from entry tag_index on, read position i
RECURSIVE parse_tag_table(_, _, _, _, _, _)
parse_tag_table(b, tag_count, tag_index, i, tag_table, elements) ==
    IF tag_index >= tag_count
    THEN [err |-> "", tag_table |-> tag_table, elements |-> elements]
    ELSE IF ~IsAscii(Slice(b, i, i + 4))
    THEN [err |-> "UnicodeDecodeError", tag_table |-> tag_table, elements |-> elements]
    ELSE IF Len(b) < i + 12
    THEN [err |-> "struct.error", tag_table |-> tag_table, elements |-> elements]
    ELSE Only({
            Only({
                IF r.err # ""
                THEN [err |-> r.err, tag_table |-> tag_table, elements |-> elements]
                ELSE Only({parse_tag_table(b, tag_count, tag_index + 1, i + 12,
                                           new_table, new_elements) :
                           new_table \in
                               {Append(tag_table, <<header_signature, header_offset>>)},
                           new_elements \in
                               {pool_insert(elements, header_offset, r.tag)}}) :
                r \in {ICCTag_parse(header_signature, header_offset, header_size,
                                    Slice(b, header_offset, header_offset + header_size))}}) :
            header_signature \in {Slice(b, i, i + 4)},
            header_offset \in {U32(Slice(b, i + 4, i + 8))},
            header_size \in {U32(Slice(b, i + 8, i + 12))}})

ICCProfile_parse(b, force) ==
    Only({
        IF h.err # "" THEN [err |-> h.err, profile |-> NoProfile]
        ELSE IF Len(b) < h.i + 4 THEN [err |-> "struct.error", profile |-> NoProfile]
        ELSE Only({
                IF t.err # "" THEN [err |-> t.err, profile |-> NoProfile]
                ELSE [err |-> "",
                      profile |-> [header |-> h.header,
                                   tag_count |-> U32(Slice(b, h.i, h.i + 4)),
                                   tag_table |-> t.tag_table,
                                   elements |-> t.elements]] :
                t \in {parse_tag_table(b, U32(Slice(b, h.i, h.i + 4)), 0, h.i + 4,
                                       << >>, << >>)}}) :
        h \in {ICCHeader_parse(b, force)}})

(***************************************************************************)
(* remove_copyright.                                                       *)
(***************************************************************************)
\* the kept entries collected in reverse (insert(0, ...) for append)
RECURSIVE new_tag_table_reversed(_)
new_tag_table_reversed(tag_table) ==
    IF tag_table = << >> THEN << >>
    ELSE IF Head(tag_table)[1] = SIG_cprt THEN new_tag_table_reversed(Tail(tag_table))
    ELSE Append(new_tag_table_reversed(Tail(tag_table)), Head(tag_table))

\* step 1: the entries kept, and the offsets of the "cprt" entries, in order
new_tag_table(tag_table) == SelectSeq(tag_table, LAMBDA e : e[1] # SIG_cprt)
RECURSIVE offset_removal_list(_)
offset_removal_list(tag_table) ==
    IF tag_table = << >> THEN << >>
    ELSE IF Head(tag_table)[1] = SIG_cprt
         THEN <<Head(tag_table)[2]>> \o offset_removal_list(Tail(tag_table))
         ELSE offset_removal_list(Tail(tag_table))

\* step 2, line 1467: "offset_candidate in (offset for (offset, _) in
\* profile.tag_table)".  The entries are (signature, offset) tuples, so the
\* generator yields the signatures, and an int never equals a str
int_eq_str(n, str) == FALSE
still_used(offset_candidate, tag_table) ==
    \E k \in 1..Len(tag_table) : int_eq_str(offset_candidate, tag_table[k][1])
\* the count decremented once, however many entries were removed
new_tag_count_one(tag_count, removal_list) == tag_count - 1

\* line 1462: profile.tag_count -= len(offset_removal_list)
new_tag_count(tag_count, removal_list) == tag_count - Len(removal_list)

\* the offsets of the entries kept, taken for the ones to delete
final_offset_removal_list_kept(removal_list, tag_table) ==
    [k \in 1..Len(tag_table) |-> tag_table[k][2]]

\* lines 1465-1469: the candidates no kept entry is found to use
final_offset_removal_list(removal_list, tag_table) ==
    SelectSeq(removal_list, LAMBDA c : ~still_used(c, tag_table))

\* the value of profile.elements[offset].pack(): a list has no pack attribute
element_pack(value) ==
    IF value.list THEN PackError("AttributeError") ELSE ICCTag_pack(value.tag)

\* step 3: the loop stops at the first exception, the pool as it is then
RECURSIVE remove_elements(_, _)
remove_elements(elements, offsets) ==
    IF offsets = << >> THEN [err |-> "", elements |-> elements]
    ELSE IF ~DictHas(elements, Head(offsets))
    THEN [err |-> "KeyError", elements |-> elements]
    ELSE Only({IF r.err # "" THEN [err |-> r.err, elements |-> elements]
               ELSE Only({remove_elements(new_elements, rest) :
                          new_elements \in {DictDel(elements, Head(offsets))},
                          rest \in {Tail(offsets)}}) :
               r \in {element_pack(DictGet(elements, Head(offsets)))}})

\* the attributes of the profile object remove_copyright assigns or changes
edited_profile_resized(p, table, count, elements) ==
    [p EXCEPT !.tag_table = table, !.tag_count = count, !.elements = elements,
              !.header.profile_size = p.header.profile_size - 12 * (p.tag_count - count)]
edited_profile(p, table, count, elements) ==
    [p EXCEPT !.tag_table = table, !.tag_count = count, !.elements = elements]

\* the whole call: [err, profile]; the directory and the count are assigned
\* before the pool loop runs
remove_copyright(p) ==
    Only({
        Only({[err |-> r.err,
               profile |-> edited_profile(p, table,
                                          new_tag_count(p.tag_count, removal),
                                          r.elements)] :
              r \in {remove_elements(p.elements,
                                     final_offset_removal_list(removal, table))}}) :
        table \in {new_tag_table(p.tag_table)},
        removal \in {offset_removal_list(p.tag_table)}})

(***************************************************************************)
(* write_icc_profile.                                                      *)
(***************************************************************************)
\* step 2: [err, offset_dict, elements_bytes]; offset_dict is a dict
\* offset -> <<position in elements_bytes, length>>
RECURSIVE pack_elements(_, _, _)
pack_elements(elements, offset_dict, elements_bytes) ==
    IF elements = << >>
    THEN [err |-> "", offset_dict |-> offset_dict, elements_bytes |-> elements_bytes]
    ELSE Only({
            IF r.err # ""
            THEN [err |-> r.err, offset_dict |-> offset_dict,
                  elements_bytes |-> elements_bytes]
            ELSE Only({pack_elements(rest, new_dict, new_bytes) :
                       rest \in {Tail(elements)},
                       new_dict \in {DictSet(offset_dict, Head(elements)[1],
                                             <<Len(elements_bytes), Len(r.bytes)>>)},
                       new_bytes \in {elements_bytes \o r.bytes}}) :
            r \in {element_pack(Head(elements)[2])}})

\* the directory entry points at header_size + tag_table_size + offset_out
entry_offset_no_directory(header_size, tag_table_size, offset_out) ==
    header_size + offset_out
entry_offset(header_size, tag_table_size, offset_out) ==
    header_size + tag_table_size + offset_out

\* step 3, the loop over the directory: [err, bytes]
RECURSIVE pack_tag_table(_, _, _, _)
pack_tag_table(tag_table, offset_dict, header_size, tag_table_size) ==
    IF tag_table = << >> THEN Packed(<< >>)
    ELSE IF ~DictHas(offset_dict, Head(tag_table)[2]) THEN PackError("KeyError")
    ELSE Only({
            IF rest.err # "" THEN rest
            ELSE Packed(Head(tag_table)[1]
                            \o PackU32(entry_offset(header_size, tag_table_size, e[1]))
                            \o PackU32(e[2]) \o rest.bytes) :
            e \in {DictGet(offset_dict, Head(tag_table)[2])},
            rest \in {Only({pack_tag_table(tail, offset_dict, header_size,
                                           tag_table_size) :
                            tail \in {Tail(tag_table)}})}})

\* step 3, the assertion on the tag count
tag_count_assertion_skipped(p) == TRUE
tag_count_assertion(p) == p.tag_count = Len(p.tag_table)

\* step 4: profile.header.profile_size = len(total)
set_profile_size_stale(p, size) == p
set_profile_size(p, size) == [p EXCEPT !.header.profile_size = size]

\* the whole call up to the file write: [err, profile, bytes]; profile is the
\* profile as the call leaves it (header.profile_size is assigned in step 4)
write_icc_profile(p) ==
    Only({
        IF h1.err # "" THEN [err |-> h1.err, profile |-> p, bytes |-> << >>]
        ELSE IF e.err # "" THEN [err |-> e.err, profile |-> p, bytes |-> << >>]
        ELSE IF ~tag_count_assertion(p)
            THEN [err |-> "AssertionError", profile |-> p, bytes |-> << >>]
        ELSE IF ~FitsU32(p.tag_count)
            THEN [err |-> "struct.error", profile |-> p, bytes |-> << >>]
        ELSE Only({
                IF t.err # "" THEN [err |-> t.err, profile |-> p, bytes |-> << >>]
                ELSE Only({
                        [err |-> "", profile |-> p2,
                         bytes |-> ICCHeader_pack(p2.header).bytes
                                       \o PackU32(p.tag_count) \o t.bytes
                                       \o e.elements_bytes] :
                        p2 \in {set_profile_size(p,
                                    Len(h1.bytes) + 4 + Len(t.bytes)
                                        + Len(e.elements_bytes))}}) :
                t \in {pack_tag_table(p.tag_table, e.offset_dict, Len(h1.bytes),
                                      4 + 12 * p.tag_count)}}) :
        h1 \in {ICCHeader_pack(p.header)},
        e \in {pack_elements(p.elements, << >>, << >>)}})

(***************************************************************************)
(* Sample inputs.                                                          *)
(***************************************************************************)
\* a version 4.3 display profile header, D50 illuminant; magic is the file
\* signature field and size the profile_size field
SampleHeader(size, magic) ==
    PackU32(size) \o <<76, 105, 110, 111>> \o <<4, 48, 0, 0>>
        \o <<109, 110, 116, 114>> \o <<82, 71, 66, 32>> \o SIG_XYZ
        \o PackU16(2020) \o PackU16(1) \o PackU16(2) \o PackU16(3) \o PackU16(4)
        \o PackU16(5)
        \o magic \o <<65, 80, 80, 76>>
        \o PackU32(1) \o PackU32(2) \o PackU32(3) \o <<0, 0, 0, 0, 0, 0, 0, 1>>
        \o PackU32(1)
        \o <<0, 0, 246, 214>> \o <<0, 1, 0, 0>> \o <<0, 0, 211, 45>>
        \o PackU32(7) \o [k \in 1..16 |-> k] \o Zeros(28)

SIG_bad == <<97, 99, 115, 113>>

\* "text", reserved, "hi" and NUL padding: 20 bytes
PayloadText == SIG_text \o Zeros(4) \o <<104, 105>> \o Zeros(10)
\* one XYZ triple: 20 bytes
PayloadXYZ == SIG_XYZ \o Zeros(4) \o <<0, 0, 246, 214>> \o <<0, 1, 0, 0>> \o <<255, 255, 211, 45>>
\* chromaticity with one channel: 20 bytes
PayloadChrm == SIG_chrm \o Zeros(4) \o PackU16(1) \o PackU16(0)
                   \o <<0, 0, 163, 215>> \o <<0, 0, 84, 122>>

\* a sampled curve with n values: 12 + 2n bytes
PayloadCurv(n) == SIG_curv \o Zeros(4) \o PackU32(n) \o Concat([k \in 1..n |-> PackU16(257 * k)])

Payloads == <<PayloadText, PayloadXYZ, PayloadChrm, PayloadCurv(1)>>
DirSignatures == {SIG_cprt, SIG_wtpt, SIG_desc}

\* the directory entries of the sample profiles:
\* <<signature, index of the payload the entry points at>>
SampleEntries ==
    {<<SIG_cprt, 1>>, <<SIG_cprt, 3>>, <<SIG_cprt, 4>>,
     <<SIG_wtpt, 1>>, <<SIG_wtpt, 2>>,
     <<SIG_desc, 1>>, <<SIG_desc, 4>>}

\* the directories of the sample profiles: up to MaxTags entries
SampleDirs == UNION {[1..n -> SampleEntries] : n \in 0..MaxTags}

\* the payloads a directory references, each once, in the order of first reference
RECURSIVE FirstRefs(_, _)
FirstRefs(dir, seen) ==
    IF dir = << >> THEN seen
    ELSE Only({FirstRefs(rest, new_seen) :
               rest \in {Tail(dir)},
               new_seen \in {IF \E k \in 1..Len(seen) : seen[k] = Head(dir)[2] THEN seen
                             ELSE Append(seen, Head(dir)[2])}})

\* the byte position of payload p in the element region laid out as refs
RECURSIVE RegionOffset(_, _)
RegionOffset(refs, p) ==
    IF Head(refs) = p THEN 0
    ELSE Len(Payloads[Head(refs)]) + Only({RegionOffset(rest, p) : rest \in {Tail(refs)}})

\* a profile file: header, count, directory, then the referenced payloads back
\* to back; profile_size is the length of the file
SampleBlob(dir, magic) ==
    Only({
        Only({SampleHeader(size, magic) \o PackU32(Len(dir))
                  \o Concat([k \in 1..Len(dir) |->
                        dir[k][1] \o PackU32(base + RegionOffset(refs, dir[k][2]))
                            \o PackU32(Len(Payloads[dir[k][2]]))])
                  \o region :
              size \in {base + Len(region)}}) :
        refs \in {FirstRefs(dir, << >>)},
        base \in {128 + 4 + 12 * Len(dir)},
        region \in {Concat([k \in 1..Len(FirstRefs(dir, << >>)) |->
                                Payloads[FirstRefs(dir, << >>)[k]]])}})

(***************************************************************************)
(* The life of a profile: parse, then remove_copyright and                 *)
(* write_icc_profile in any order and number.                              *)
(***************************************************************************)
Init ==
    /\ blob \in {SampleBlob(d, SIG_acsp) : d \in SampleDirs}
                \cup {SampleBlob(<< >>, SIG_bad)}
    /\ pc = "init"
    /\ profile = NoProfile
    /\ tag = NoTag
    /\ hdr = NoHeader
    /\ output = << >>
    /\ last = [op |-> "none", err |-> ""]
    /\ edited = FALSE
    /\ force_version_number = << >>
    /\ number = <<0, 0>>
    /\ parsed_number = <<0, 0>>

\* parse_icc_profile: no version override
Parse ==
    /\ pc = "init"
    /\ \E r \in {ICCProfile_parse(blob, << >>)} :
        /\ pc' = IF r.err = "" THEN "parsed" ELSE "parse_failed"
        /\ profile' = r.profile
        /\ last' = [op |-> "parse", err |-> r.err]
    /\ UNCHANGED <<blob, tag, hdr, output, edited,
                 force_version_number, number, parsed_number>>

RemoveCopyright ==
    /\ pc = "parsed"
    /\ \E r \in {remove_copyright(profile)} :
        /\ profile' = r.profile
        /\ last' = [op |-> "remove_copyright", err |-> r.err]
    /\ edited' = TRUE
    /\ UNCHANGED <<blob, pc, tag, hdr, output,
                 force_version_number, number, parsed_number>>

\* the file is written only when nothing was raised before step 5
Write ==
    /\ pc = "parsed"
    /\ \E r \in {write_icc_profile(profile)} :
        /\ profile' = r.profile
        /\ output' = IF r.err = "" THEN r.bytes ELSE output
        /\ last' = [op |-> "write_icc_profile", err |-> r.err]
    /\ UNCHANGED <<blob, pc, tag, hdr, edited,
                 force_version_number, number, parsed_number>>

Next == Parse \/ RemoveCopyright \/ Write

Spec == Init /\ [][Next]_vars

(***************************************************************************)
(* The same life on truncated files: the end of the element region is      *)
(* missing, so the entries of the last element reach beyond the blob.      *)
(***************************************************************************)
SampleCuts == {1, 8, 13}
TruncatedDirs == UNION {[1..n -> SampleEntries] : n \in 1..2}
TruncatedBlobs ==
    {Slice(b, 0, Len(b) - cut) :
        b \in {SampleBlob(d, SIG_acsp) : d \in TruncatedDirs}, cut \in SampleCuts}

InitTruncated ==
    /\ blob \in TruncatedBlobs
    /\ pc = "init"
    /\ profile = NoProfile
    /\ tag = NoTag
    /\ hdr = NoHeader
    /\ output = << >>
    /\ last = [op |-> "none", err |-> ""]
    /\ edited = FALSE
    /\ force_version_number = << >>
    /\ number = <<0, 0>>
    /\ parsed_number = <<0, 0>>

SpecTruncated == InitTruncated /\ [][Next]_vars

(***************************************************************************)
(* write_icc_profile alone, on profile objects a caller has put together:  *)
(* a decoded profile whose tag_count was changed by delta, with or without *)
(* one more directory entry whose offset is no pool key.                   *)
(***************************************************************************)
SampleDeltas == {-1, 0, 1}
StrayEntry == <<SIG_wtpt, 4>>
Assembled(p, delta, stray) ==
    Only({[p EXCEPT !.tag_table = table, !.tag_count = Len(table) + delta] :
          table \in {IF stray THEN Append(p.tag_table, StrayEntry) ELSE p.tag_table}})

InitWrite ==
    /\ blob \in {SampleBlob(d, SIG_acsp) : d \in TruncatedDirs}
    /\ \E delta \in SampleDeltas, stray \in BOOLEAN :
        profile = Assembled(ICCProfile_parse(blob, << >>).profile, delta, stray)
    /\ pc = "parsed"
    /\ tag = NoTag
    /\ hdr = NoHeader
    /\ output = << >>
    /\ last = [op |-> "none", err |-> ""]
    /\ edited = FALSE
    /\ force_version_number = << >>
    /\ number = <<0, 0>>
    /\ parsed_number = <<0, 0>>

SpecWrite == InitWrite /\ [][Write]_vars

(***************************************************************************)
(* The element codec alone: ICCTag.parse of a payload, then ICCTag.pack of *)
(* the tag it returned.                                                    *)
(***************************************************************************)
PayloadChrm0 == SIG_chrm \o Zeros(4) \o PackU16(0) \o PackU16(1)
PayloadChrm2 == SIG_chrm \o Zeros(4) \o PackU16(2) \o PackU16(1)
                    \o <<0, 0, 163, 215>> \o <<0, 0, 84, 122>>
                    \o <<0, 1, 0, 0>> \o <<255, 255, 255, 255>>
PayloadXYZ2 == PayloadXYZ \o <<128, 0, 0, 1>> \o <<127, 255, 255, 255>> \o <<0, 0, 0, 0>>
PayloadSf32 == SIG_sf32 \o Zeros(4) \o <<0, 1, 12, 34>> \o <<255, 254, 0, 7>> \o <<128, 0, 0, 0>>
\* a parametric curve with selector f and room for seven parameters
PayloadPara(f) == SIG_para \o Zeros(4) \o PackU16(f) \o PackU16(0)
                      \o Concat([k \in 1..7 |-> <<0, k, 128, 0>>])
\* "ab" and a NUL as the ASCII part, one UTF-16 unit, an empty Macintosh part
PayloadDesc == SIG_desc \o Zeros(4) \o PackU32(3) \o <<97, 98, 0>>
                   \o PackU32(0) \o PackU32(2) \o <<0, 97>>
                   \o PackU16(0) \o PackU8(0) \o Zeros(67) \o <<1, 2>>
\* the same with a NUL, "a" and a NUL as the ASCII part
PayloadDescLeadingNul ==
    SIG_desc \o Zeros(4) \o PackU32(3) \o <<0, 97, 0>>
        \o PackU32(0) \o PackU32(2) \o <<0, 97>>
        \o PackU16(0) \o PackU8(0) \o Zeros(67) \o <<1, 2>>
\* one name record ("enUS"), its content right behind the record
PayloadMluc1 == SIG_mluc \o Zeros(4) \o PackU32(1)
                    \o PackU32(12) \o <<101, 110>> \o <<85, 83>> \o PackU32(4) \o PackU32(28)
                    \o <<0, 104, 0, 105>>
\* two name records stored back to back, the contents behind them
PayloadMluc2 == SIG_mluc \o Zeros(4) \o PackU32(2)
                    \o PackU32(12) \o <<101, 110>> \o <<85, 83>> \o PackU32(4) \o PackU32(44)
                    \o PackU32(12) \o <<100, 101>> \o <<68, 69>> \o PackU32(2) \o PackU32(48)
                    \o <<0, 104, 0, 105>> \o <<0, 106>>
PayloadData == SIG_data \o Zeros(4) \o <<1, 2, 3, 200>>
PayloadNonAscii == <<200, 1, 2, 3>> \o Zeros(4)

Prefixes(b) == {Slice(b, 0, n) : n \in 0..Len(b)}

\* function-type selectors of the parametric curves: the five of the table,
\* the first one beyond it, one whose low byte is a table key, the largest
SampleSelectors == 0..5 \cup {257, 65535}

TagSamples ==
    UNION {Prefixes(b) :
            b \in {PayloadText, PayloadXYZ, PayloadXYZ2, PayloadChrm0, PayloadChrm,
                   PayloadChrm2, PayloadSf32, PayloadDesc, PayloadMluc1, PayloadMluc2,
                   PayloadData, PayloadNonAscii, PayloadDescLeadingNul}
               \cup {PayloadCurv(n) : n \in 0..2}
               \cup {PayloadPara(f) : f \in SampleSelectors}}

InitTag ==
    /\ blob \in TagSamples
    /\ pc = "init"
    /\ profile = NoProfile
    /\ tag = NoTag
    /\ hdr = NoHeader
    /\ output = << >>
    /\ last = [op |-> "none", err |-> ""]
    /\ edited = FALSE
    /\ force_version_number = << >>
    /\ number = <<0, 0>>
    /\ parsed_number = <<0, 0>>

\* "zzzz", a signature that is no key of the header table
SIG_zzzz == <<122, 122, 122, 122>>
TagDirSignatures == DirSignatures \cup {SIG_zzzz}

\* the directory entry that points at the payload: any signature, offset 132
TagParse ==
    /\ pc = "init"
    /\ \E header_signature \in TagDirSignatures :
        \E r \in {ICCTag_parse(header_signature, 132, Len(blob), blob)} :
            /\ pc' = IF r.err = "" THEN "parsed" ELSE "parse_failed"
            /\ tag' = r.tag
            /\ last' = [op |-> "ICCTag.parse", err |-> r.err]
    /\ UNCHANGED <<blob, profile, hdr, output, edited,
                 force_version_number, number, parsed_number>>

TagPack ==
    /\ pc = "parsed"
    /\ \E r \in {ICCTag_pack(tag)} :
        /\ pc' = IF r.err = "" THEN "packed" ELSE "pack_failed"
        /\ output' = r.bytes
        /\ last' = [op |-> "ICCTag.pack", err |-> r.err]
    /\ UNCHANGED <<blob, profile, tag, hdr, edited,
                 force_version_number, number, parsed_number>>

NextTag == TagParse \/ TagPack

SpecTag == InitTag /\ [][NextTag]_vars

(***************************************************************************)
(* The header codec alone: ICCHeader.parse of a buffer, then               *)
(* ICCHeader.pack of the header it returned.                               *)
(***************************************************************************)
HeaderSamples ==
    UNION {Prefixes(SampleHeader(size, magic)) :
            size \in {0, 132, 70000}, magic \in {SIG_acsp, SIG_bad}}

InitHeader ==
    /\ blob \in HeaderSamples
    /\ pc = "init"
    /\ profile = NoProfile
    /\ tag = NoTag
    /\ hdr = NoHeader
    /\ output = << >>
    /\ last = [op |-> "none", err |-> ""]
    /\ edited = FALSE
    /\ force_version_number = << >>
    /\ number = <<0, 0>>
    /\ parsed_number = <<0, 0>>

HeaderParse ==
    /\ pc = "init"
    /\ \E r \in {ICCHeader_parse(blob, force_version_number)} :
        /\ pc' = IF r.err = "" THEN "parsed" ELSE "parse_failed"
        /\ hdr' = r.header
        /\ last' = [op |-> "ICCHeader.parse", err |-> r.err]
    /\ UNCHANGED <<blob, profile, tag, output, edited,
                 force_version_number, number, parsed_number>>

HeaderPack ==
    /\ pc = "parsed"
    /\ \E r \in {ICCHeader_pack(hdr)} :
        /\ pc' = IF r.err = "" THEN "packed" ELSE "pack_failed"
        /\ output' = r.bytes
        /\ last' = [op |-> "ICCHeader.pack", err |-> r.err]
    /\ UNCHANGED <<blob, profile, tag, hdr, edited,
                 force_version_number, number, parsed_number>>

NextHeader == HeaderParse \/ HeaderPack

SpecHeader == InitHeader /\ [][NextHeader]_vars

(***************************************************************************)
(* The header codec with a version override (--force-version-number).      *)
(***************************************************************************)
\* "4.3.0", "2.1.0", "10.2.1", "02.4.0", "4.3", "4.x.0", "4.30.0", "4.3.20"
SampleOverrides ==
    {<<52, 46, 51, 46, 48>>, <<50, 46, 49, 46, 48>>, <<49, 48, 46, 50, 46, 49>>,
     <<48, 50, 46, 52, 46, 48>>, <<52, 46, 51>>, <<52, 46, 120, 46, 48>>,
     <<52, 46, 51, 48, 46, 48>>, <<52, 46, 51, 46, 50, 48>>}

InitOverride ==
    /\ blob \in Prefixes(SampleHeader(132, SIG_acsp)) \cup {SampleHeader(132, SIG_bad)}
    /\ force_version_number \in SampleOverrides
    /\ pc = "init"
    /\ profile = NoProfile
    /\ tag = NoTag
    /\ hdr = NoHeader
    /\ output = << >>
    /\ last = [op |-> "none", err |-> ""]
    /\ edited = FALSE
    /\ number = <<0, 0>>
    /\ parsed_number = <<0, 0>>

SpecOverride == InitOverride /\ [][NextHeader]_vars

(***************************************************************************)
(* The fixed-point codecs alone: a pack of a (whole, frac) pair and a      *)
(* parse of the bytes it returned, or a parse of input bytes.              *)
(***************************************************************************)
SampleWholes == {-32768, -32767, -256, -1, 0, 1, 255, 256, 32767, 32768, 65535}
SampleFracs == {0, 1, 255, 256, 32768, 65535}
FixedSamples ==
    {<<0, 0, 0, 0>>, <<128, 0, 255, 255>>, <<127, 255, 0, 1>>, <<255, 255, 128, 0>>,
     <<1, 2, 3>>}

InitFixed ==
    /\ blob \in FixedSamples
    /\ number \in SampleWholes \X SampleFracs
    /\ pc = "init"
    /\ profile = NoProfile
    /\ tag = NoTag
    /\ hdr = NoHeader
    /\ output = << >>
    /\ last = [op |-> "none", err |-> ""]
    /\ edited = FALSE
    /\ force_version_number = << >>
    /\ parsed_number = <<0, 0>>

\* struct.pack("!hH", ...) raises struct.error on a value out of range
call_pack_s15Fixed16Number(n) ==
    IF FitsS16(n[1]) /\ FitsU16(n[2]) THEN Packed(pack_s15Fixed16Number(n))
    ELSE PackError("struct.error")

\* struct.unpack(">h", blob[0:2]) and (">H", blob[2:4]) need the four bytes
call_parse_s15Fixed16Number(b) ==
    IF Len(b) < 4 THEN [err |-> "struct.error", number |-> <<0, 0>>]
    ELSE [err |-> "", number |-> parse_s15Fixed16Number(b)]
call_parse_u16Fixed16Number(b) ==
    IF Len(b) < 4 THEN [err |-> "struct.error", number |-> <<0, 0>>]
    ELSE [err |-> "", number |-> parse_u16Fixed16Number(b)]

\* a packer runs on the pair; a parser runs on the input bytes, or on the
\* bytes its packer returned (pc = "round_trip" afterwards)
Pack_s15Fixed16Number ==
    /\ pc = "init"
    /\ \E r \in {call_pack_s15Fixed16Number(number)} :
        /\ pc' = IF r.err = "" THEN "packed" ELSE "pack_failed"
        /\ output' = r.bytes
        /\ last' = [op |-> "pack_s15Fixed16Number", err |-> r.err]
    /\ UNCHANGED <<blob, profile, tag, hdr, edited,
                 force_version_number, number, parsed_number>>

Pack_u16Fixed16Number ==
    /\ pc = "init"
    /\ \E r \in {pack_u16Fixed16Number(number)} :
        /\ pc' = IF r.err = "" THEN "packed" ELSE "pack_failed"
        /\ output' = r.bytes
        /\ last' = [op |-> "pack_u16Fixed16Number", err |-> r.err]
    /\ UNCHANGED <<blob, profile, tag, hdr, edited,
                 force_version_number, number, parsed_number>>

Parse_s15Fixed16Number ==
    /\ pc = "init" \/ (pc = "packed" /\ last.op = "pack_s15Fixed16Number")
    /\ \E r \in {call_parse_s15Fixed16Number(IF pc = "packed" THEN output ELSE blob)} :
        /\ pc' = IF pc = "init"
                 THEN (IF r.err = "" THEN "parsed" ELSE "parse_failed")
                 ELSE (IF r.err = "" THEN "round_trip" ELSE "round_trip_failed")
        /\ parsed_number' = r.number
        /\ last' = [op |-> "parse_s15Fixed16Number", err |-> r.err]
    /\ UNCHANGED <<blob, profile, tag, hdr, output, edited,
                 force_version_number, number>>

Parse_u16Fixed16Number ==
    /\ pc = "init" \/ (pc = "packed" /\ last.op = "pack_u16Fixed16Number")
    /\ \E r \in {call_parse_u16Fixed16Number(IF pc = "packed" THEN output ELSE blob)} :
        /\ pc' = IF pc = "init"
                 THEN (IF r.err = "" THEN "parsed" ELSE "parse_failed")
                 ELSE (IF r.err = "" THEN "round_trip" ELSE "round_trip_failed")
        /\ parsed_number' = r.number
        /\ last' = [op |-> "parse_u16Fixed16Number", err |-> r.err]
    /\ UNCHANGED <<blob, profile, tag, hdr, output, edited,
                 force_version_number, number>>

NextFixed ==
    \/ Pack_s15Fixed16Number
    \/ Pack_u16Fixed16Number
    \/ Parse_s15Fixed16Number
    \/ Parse_u16Fixed16Number

SpecFixed == InitFixed /\ [][NextFixed]_vars

(***************************************************************************)
(* Properties.                                                             *)
(***************************************************************************)
\* the profile as ICCProfile.parse returned it, before any edit
Decoded == ICCProfile_parse(blob, << >>).profile
Signatures(tag_table) == [k \in 1..Len(tag_table) |-> tag_table[k][1]]
WithoutCprt(tag_table) == SelectSeq(tag_table, LAMBDA e : e[1] # SIG_cprt)
Offsets(tag_table) == {tag_table[k][2] : k \in 1..Len(tag_table)}
Wrote == last.op = "write_icc_profile" /\ last.err = ""
AllImplemented(elements) ==
    \A k \in 1..Len(elements) :
        /\ ~elements[k][2].list
        /\ element_table(elements[k][2].tag.element_signature) # "None"

\* C1: a blob that ICCProfile.parse accepts, with elements of implemented
\* kinds only and no edit applied, is written back byte for byte by
\* write_icc_profile.
C1_RoundTrip ==
    (pc = "parsed" /\ ~edited /\ last.op = "write_icc_profile"
        /\ AllImplemented(profile.elements))
        => (last.err = "" /\ output = blob)

\* C2: after parse and after any number of remove_copyright calls, every
\* offset of profile.tag_table is a key of profile.elements; an offset shared
\* by a "cprt" entry and another entry stays in the pool.
C2_NoDanglingEntry ==
    pc = "parsed" => Offsets(profile.tag_table) \subseteq DictKeys(profile.elements)

\* remove_copyright has run on a directory in which a "cprt" entry shared its
\* offset with an entry that is kept, and the offset is still a pool key
C2_Witness ==
    /\ pc = "parsed" /\ edited /\ last.op = "remove_copyright"
    /\ \E j \in 1..Len(Decoded.tag_table), k \in 1..Len(profile.tag_table) :
        /\ Decoded.tag_table[j][1] = SIG_cprt
        /\ Decoded.tag_table[j][2] = profile.tag_table[k][2]
        /\ DictHas(profile.elements, profile.tag_table[k][2])

\* C3: after a remove_copyright call every key of profile.elements is
\* referenced by a remaining entry of profile.tag_table, and the call
\* completes (also when the only entries at an offset were "cprt" entries).
C3_NoOrphanedElement ==
    (pc = "parsed" /\ edited)
        => /\ DictKeys(profile.elements) \subseteq Offsets(profile.tag_table)
           /\ last.op = "remove_copyright" => last.err = ""

\* C4: profile.tag_count equals len(profile.tag_table) after parse and after
\* any remove_copyright calls, so the assertion of write_icc_profile does not
\* fire; after remove_copyright no entry has signature "cprt" and every other
\* decoded entry is still present.
C4_CountAndCprtEntries ==
    pc = "parsed" =>
        /\ profile.tag_count = Len(profile.tag_table)
        /\ last.op = "write_icc_profile" => last.err # "AssertionError"
        /\ edited =>
            /\ \A k \in 1..Len(profile.tag_table) : profile.tag_table[k][1] # SIG_cprt
            /\ \A j \in 1..Len(Decoded.tag_table) :
                Decoded.tag_table[j][1] # SIG_cprt
                    => \E k \in 1..Len(profile.tag_table) :
                            profile.tag_table[k] = Decoded.tag_table[j]

\* a completed remove_copyright call that removed entries and kept others
C4_Witness ==
    /\ pc = "parsed" /\ edited
    /\ last = [op |-> "remove_copyright", err |-> ""]
    /\ Len(profile.tag_table) > 0
    /\ Len(Decoded.tag_table) - Len(profile.tag_table) > 1

\* the directory of the written file: the count behind the packed header, then
\* one 12-byte entry per count
WrittenHeaderSize == Len(ICCHeader_pack(profile.header).bytes)
WrittenCount == U32(Slice(output, WrittenHeaderSize, WrittenHeaderSize + 4))
WrittenEntry(k) ==
    Slice(output, WrittenHeaderSize + 12 * k - 8, WrittenHeaderSize + 12 * k + 4)
WrittenSignatures == [k \in 1..WrittenCount |-> Slice(WrittenEntry(k), 0, 4)]

\* C5: the signatures of the directory written by write_icc_profile are the
\* decoded signatures, in the decoded order, without the "cprt" entries when
\* remove_copyright was applied.
C5_DirectoryOrder ==
    (pc = "parsed" /\ Wrote) =>
        WrittenSignatures =
            Signatures(IF edited THEN WithoutCprt(Decoded.tag_table)
                       ELSE Decoded.tag_table)

\* a file written after a "cprt" entry was removed from between two entries
\* of different signatures
C5_Witness ==
    /\ pc = "parsed" /\ edited /\ Wrote
    /\ Signatures(Decoded.tag_table) = <<SIG_wtpt, SIG_cprt, SIG_desc>>
    /\ WrittenSignatures = <<SIG_wtpt, SIG_desc>>
    /\ Len(profile.elements) = 2

\* the k-th directory triple of the input file
BlobEntry(k) == Slice(blob, 120 + 12 * k, 132 + 12 * k)

\* C6: after parse, profile.elements holds one Element (a tag object, no
\* collection) per distinct offset, and profile.tag_table holds one
\* (signature, offset) entry per directory triple, in file order.
C6_OneElementPerOffset ==
    (pc = "parsed" /\ ~edited) =>
        /\ \A k \in 1..Len(profile.elements) : ~profile.elements[k][2].list
        /\ DictKeys(profile.elements) = Offsets(profile.tag_table)
        /\ Len(profile.tag_table) = U32(Slice(blob, 128, 132))
        /\ \A k \in 1..Len(profile.tag_table) :
            profile.tag_table[k] =
                <<Slice(BlobEntry(k), 0, 4), U32(Slice(BlobEntry(k), 4, 8))>>

\* C7: write_icc_profile raises nothing on a profile obtained from a
\* successful parse followed by any number of remove_copyright calls.
C7_EncodeTotal ==
    (pc = "parsed" /\ last.op = "write_icc_profile") => last.err = ""

\* C8: ICCTag.pack returns bytes, raising nothing, for every element that
\* ICCTag.parse returns, of every kind of the element table and of the
\* fallback kind.
C8_ElementPackTotal ==
    last.op = "ICCTag.pack" => last.err = ""

\* C9: for a 128-byte header that ICCHeader.parse accepts (no override),
\* ICCHeader.pack returns 128 bytes equal to the input bytes.
C9_HeaderRoundTrip ==
    (last.op = "ICCHeader.pack" /\ Len(blob) = 128)
        => (last.err = "" /\ Len(output) = 128 /\ output = blob)

\* the packed lengths of the pooled elements, summed
RECURSIVE PackedLengths(_)
PackedLengths(elements) ==
    IF elements = << >> THEN 0
    ELSE Len(element_pack(Head(elements)[2]).bytes) + PackedLengths(Tail(elements))

\* C10: the written buffer is a 128-byte header, the 4-byte count at byte
\* 128, 12 bytes per entry and the element region: its length is
\* 128 + 4 + 12 * tag_count + the packed lengths of the pooled elements
\* (132 once the only entry, a "cprt" entry, was removed).
C10_OutputLayout ==
    (pc = "parsed" /\ Wrote) =>
        /\ Len(output) = 128 + 4 + 12 * profile.tag_count + PackedLengths(profile.elements)
        /\ U32(Slice(output, 128, 132)) = profile.tag_count

\* C11: in the buffer write_icc_profile assembles, the profile_size field
\* (the first 4 bytes, big-endian) equals the length of the buffer, whatever
\* profile_size was decoded and whether or not remove_copyright was applied.
C11_ProfileSizeField ==
    (pc = "parsed" /\ Wrote) => U32(Slice(output, 0, 4)) = Len(output)

\* a file written after an edit, whose length differs from the decoded
\* profile_size field
C11_Witness ==
    /\ pc = "parsed" /\ edited /\ Wrote
    /\ Decoded.header.profile_size # Len(output)
    /\ profile.header.profile_size = Len(output)
    /\ U32(Slice(output, 0, 4)) = Len(output)

\* where the element stored under key starts inside the element region
ElementPosition(elements, key) ==
    PackedLengths(SubSeq(elements, 1, DictIndex(elements, key) - 1))
WrittenOffset(k) == U32(Slice(WrittenEntry(k), 4, 8))
WrittenSize(k) == U32(Slice(WrittenEntry(k), 8, 12))

C13_AllOrNothing ==
    [][(RemoveCopyright /\ last'.err # "")
            => /\ profile'.tag_table = profile.tag_table
               /\ profile'.tag_count = profile.tag_count
               /\ profile'.elements = profile.elements]_vars

\* C14: for whole in -32768..32767 and frac in 0..65535,
\* pack_s15Fixed16Number((whole, frac)) returns 4 bytes and
\* parse_s15Fixed16Number of them returns (whole, frac).
C14_SignedSymmetry ==
    (FitsS16(number[1]) /\ FitsU16(number[2])) =>
        /\ last.op = "pack_s15Fixed16Number" => (last.err = "" /\ Len(output) = 4)
        /\ (last.op = "parse_s15Fixed16Number" /\ pc \in {"round_trip", "round_trip_failed"})
                => (last.err = "" /\ parsed_number = number)

\* a negative whole part with a fraction above 32767 went through the packer
\* and the parser
C14_Witness ==
    /\ pc = "round_trip" /\ last.op = "parse_s15Fixed16Number"
    /\ number = <<-32767, 65535>>
    /\ output = <<128, 1, 255, 255>>
    /\ parsed_number = number

\* C15: for whole in 0..65535 and frac in 0..65535,
\* pack_u16Fixed16Number((whole, frac)) returns 4 bytes and
\* parse_u16Fixed16Number of them returns (whole, frac).
C15_UnsignedSymmetry ==
    (FitsU16(number[1]) /\ FitsU16(number[2])) =>
        /\ last.op = "pack_u16Fixed16Number" => (last.err = "" /\ Len(output) = 4)
        /\ (last.op = "parse_u16Fixed16Number" /\ pc \in {"round_trip", "round_trip_failed"})
                => (last.err = "" /\ parsed_number = number)

\* the payload's type signature is not a key of the element table
Unrecognized(b) == element_table(Slice(b, 0, 4)) = "None"

C17_FallbackTotal ==
    (last.op = "ICCTag.parse" /\ Unrecognized(blob)) => last.err = ""

\* the k-th directory entry of the input file reaches beyond the blob
BlobEntryTruncated(k) ==
    U32(Slice(BlobEntry(k), 4, 8)) + U32(Slice(BlobEntry(k), 8, 12)) > Len(blob)

\* C18: ICCProfile.parse fails, returning no profile, whenever a directory
\* entry has offset + size greater than the length of the blob, whatever the
\* kind of the element at that offset.
C18_DirectoryTruncation ==
    (Len(blob) >= 132 /\ \E k \in 1..U32(Slice(blob, 128, 132)) :
            Len(blob) >= 132 + 12 * k /\ BlobEntryTruncated(k))
        => /\ pc # "parsed"
           /\ last.op = "parse" => (last.err # "" /\ profile = NoProfile)

\* C19: ICCHeader.parse fails, returning no header, on every input shorter
\* than 128 bytes, also when the first 84 bytes are a well-formed header
\* prefix with the "acsp" signature.
C19_HeaderTruncation ==
    (last.op = "ICCHeader.parse" /\ Len(blob) < 128)
        => (last.err # "" /\ hdr = NoHeader)

\* the triple (M, m, b) an override string "M.m.b" of the samples names
OverrideTriple(version_str) ==
    CASE version_str = <<52, 46, 51, 46, 48>> -> <<4, 3, 0>>
      [] version_str = <<50, 46, 49, 46, 48>> -> <<2, 1, 0>>
      [] version_str = <<49, 48, 46, 50, 46, 49>> -> <<10, 2, 1>>
      [] version_str = <<48, 50, 46, 52, 46, 48>> -> <<2, 4, 0>>
      [] version_str = <<52, 46, 51, 48, 46, 48>> -> <<4, 30, 0>>
      [] version_str = <<52, 46, 51, 46, 50, 48>> -> <<4, 3, 20>>
      [] OTHER -> << >>

\* C20: decoding with the override string "M.m.b" yields a header whose
\* version is (M, m, b) with reserved word 0, whatever the version bytes of
\* the blob, and every other field has the value it has when the same blob is
\* decoded without an override.
C20_VersionOverride ==
    (last.op = "ICCHeader.parse" /\ OverrideTriple(force_version_number) # << >>) =>
        \E plain \in {ICCHeader_parse(blob, << >>)},
           triple \in {OverrideTriple(force_version_number)} :
            /\ last.err = plain.err
            /\ last.err = "" =>
                /\ hdr.profile_version_number = <<triple[1], triple[2], triple[3], 0>>
                /\ hdr = [plain.header EXCEPT !.profile_version_number =
                                <<triple[1], triple[2], triple[3], 0>>]

\* a header whose version bytes say 4.3.0, decoded with the override "2.1.0"
C20_Witness ==
    /\ pc = "parsed" /\ last = [op |-> "ICCHeader.parse", err |-> ""]
    /\ force_version_number = <<50, 46, 49, 46, 48>>
    /\ Len(blob) = 128
    /\ parse_VersionNumber(Slice(blob, 8, 12)) = <<4, 3, 0, 0>>
    /\ hdr.profile_version_number = <<2, 1, 0, 0>>

\* the parameter count the ICC format gives each function type
ParameterCounts == <<1, 3, 4, 5, 7>>
Selector(b) == U16(Slice(b, 8, 10))

\* C21: parse_parametricCurveType reads exactly 1, 3, 4, 5 or 7 signed 16.16
\* parameters for the selector 0, 1, 2, 3 or 4, and fails, returning no
\* element, for every other selector.
C21_ParametricCurve ==
    (last.op = "ICCTag.parse" /\ Slice(blob, 0, 4) = SIG_para /\ Len(blob) >= 12) =>
        IF Selector(blob) > 4 THEN last.err # "" /\ tag = NoTag
        ELSE \E n \in {ParameterCounts[Selector(blob) + 1]} :
                /\ last.err = "" <=> Len(blob) >= 12 + 4 * n
                /\ last.err = "" =>
                    /\ Len(tag.parameters) = n
                    /\ \A k \in 1..n :
                        tag.parameters[k] =
                            <<S16(Slice(blob, 8 + 4 * k, 10 + 4 * k)),
                              U16(Slice(blob, 10 + 4 * k, 12 + 4 * k))>>

\* a curve of function type 4 was parsed: seven parameters
C21_Witness ==
    /\ pc = "parsed" /\ last.op = "ICCTag.parse"
    /\ blob = PayloadPara(4)
    /\ Len(tag.parameters) = 7
    /\ tag.parameters[7] = <<7, 32768>>

\* C22: write_icc_profile fails, before any output is written and without
\* changing the profile (header.profile_size included), when
\* profile.tag_count differs from len(profile.tag_table) or when an offset of
\* profile.tag_table is not a key of profile.elements.
C22_PackTimeDirectoryCheck ==
    [][(Write /\ (\/ profile.tag_count # Len(profile.tag_table)
                  \/ ~(Offsets(profile.tag_table) \subseteq DictKeys(profile.elements))))
            => /\ last'.err # ""
               /\ output' = output
               /\ profile' = profile]_vars

\* a call that failed on a directory entry without a pool element, the tag
\* count being right: nothing written, profile_size as decoded
C22_Witness ==
    /\ last = [op |-> "write_icc_profile", err |-> "KeyError"]
    /\ profile.tag_count = Len(profile.tag_table)
    /\ ~DictHas(profile.elements, profile.tag_table[Len(profile.tag_table)][2])
    /\ output = << >>
    /\ profile.header.profile_size = Decoded.header.profile_size

\* C23: two ICCTag.parse calls on one payload with different directory
\* signatures (signatures absent from the tag header table included) have the
\* same outcome, the same element kind and the same kind-specific fields; an
\* unknown directory signature never makes the call fail.
C23_DispatchByPayload ==
    last.op = "ICCTag.parse" =>
        \A other \in TagDirSignatures :
            \E r \in {ICCTag_parse(other, 132, Len(blob), blob)} :
                /\ r.err = last.err
                /\ last.err = "" =>
                    /\ r.tag.element_signature = tag.element_signature
                    /\ [r.tag EXCEPT !.header_signature = tag.header_signature] = tag

\* an XYZ payload parsed under the unknown directory signature "zzzz"
C23_Witness ==
    /\ pc = "parsed" /\ last.op = "ICCTag.parse"
    /\ tag.header_signature = SIG_zzzz
    /\ ~header_table_has(tag.header_signature)
    /\ blob = PayloadXYZ
    /\ tag.element_signature = SIG_XYZ

\* where pack_multiLocalizedUnicodeType emits the content of the k-th name:
\* behind the 12-byte prefix, the earlier records with their contents and the
\* 16-byte record of the name itself
RECURSIVE EmittedAt(_, _)
EmittedAt(names, k) ==
    IF k = 1 THEN 12 + 16
    ELSE EmittedAt(names, k - 1) + 2 * Len(names[k - 1][6]) + 16

\* C24: in the bytes pack_multiLocalizedUnicodeType returns, each record's
\* offset field is the position (from the start of the element) at which the
\* record's content is emitted and its length field is the number of content
\* bytes emitted, for every element parse_multiLocalizedUnicodeType returns.
C24_MlucPackConsistency ==
    (last = [op |-> "ICCTag.pack", err |-> ""] /\ tag.element_signature = SIG_mluc) =>
        \A k \in 1..Len(tag.names) :
            \E at \in {EmittedAt(tag.names, k)} :
                /\ Slice(output, at, at + 2 * Len(tag.names[k][6]))
                        = Utf16Encode(tag.names[k][6])
                /\ U32(Slice(output, at - 4, at)) = at
                /\ U32(Slice(output, at - 8, at - 4)) = 2 * Len(tag.names[k][6])

\* the k-th record of a table whose records are stored back to back
StoredRecord(b, k) == Slice(b, 12 + 16 * (k - 1), 12 + 16 * k)
RecordLength(rec) == U32(Slice(rec, 8, 12))
RecordOffset(rec) == U32(Slice(rec, 12, 16))
RecordContent(b, rec) == Slice(b, RecordOffset(rec), RecordOffset(rec) + RecordLength(rec))

\* an "mluc" payload with N >= 1 records back to back behind the count and
\* every content inside the payload, behind the records
BackToBack(b) ==
    /\ Slice(b, 0, 4) = SIG_mluc
    /\ Len(b) >= 12
    /\ U32(Slice(b, 8, 12)) >= 1
    /\ Len(b) >= 12 + 16 * U32(Slice(b, 8, 12))
    /\ \A k \in 1..U32(Slice(b, 8, 12)) :
        /\ RecordOffset(StoredRecord(b, k)) >= 12 + 16 * U32(Slice(b, 8, 12))
        /\ RecordOffset(StoredRecord(b, k)) + RecordLength(StoredRecord(b, k)) <= Len(b)
        /\ Utf16Valid(RecordContent(b, StoredRecord(b, k)))

\* C25: for a payload declaring N >= 1 records stored back to back, with
\* their contents out of line at the declared offsets,
\* parse_multiLocalizedUnicodeType returns N names, the k-th with the language
\* code, country code, length and offset of the k-th stored record and the
\* content found at payload[offset : offset + length].
C25_MlucSeveralRecords ==
    (last.op = "ICCTag.parse" /\ BackToBack(blob)) =>
        /\ last.err = ""
        /\ Len(tag.names) = U32(Slice(blob, 8, 12))
        /\ \A k \in 1..Len(tag.names) :
            \E rec \in {StoredRecord(blob, k)} :
                /\ tag.names[k][2] = Slice(rec, 4, 6)
                /\ tag.names[k][3] = Slice(rec, 6, 8)
                /\ tag.names[k][4] = RecordLength(rec)
                /\ tag.names[k][5] = RecordOffset(rec)
                /\ tag.names[k][6] = Utf16Units(RecordContent(blob, rec))

\* C26: for every payload parse_textDescriptionType accepts,
\* pack_textDescriptionType of the parsed element returns the payload byte
\* for byte: only trailing NUL bytes of the ASCII field are trimmed by the
\* parser, the packer restores them, and the remainder is emitted verbatim.
C26_DescRoundTrip ==
    (last.op = "ICCTag.pack" /\ tag.element_signature = SIG_desc) =>
        /\ last.err = ""
        /\ output = blob
        /\ \E n \in 0..tag.ascii_length :
            Slice(blob, 12, 12 + tag.ascii_length)
                = tag.ascii_invariant_description \o Zeros(n)

\* C27: for every element ICCTag.parse returns (text, XYZ, sf32, curv, para,
\* desc, mluc, fallback), ICCTag.pack returns as many bytes as the element's
\* element_size, the length of the payload it was parsed from.
C27_PackedLength ==
    (last.op = "ICCTag.pack" /\ tag.element_signature # SIG_chrm) =>
        /\ last.err = ""
        /\ tag.element_size = Len(blob)
        /\ Len(output) = tag.element_size

\* C28: remove_copyright leaves every header field, profile_size included,
\* as it was; the header of a decoded profile is changed by
\* write_icc_profile only, in profile_size only; every element that stays in
\* the pool keeps its content across a remove_copyright call.
C28_HeaderFrame ==
    [][/\ RemoveCopyright =>
            /\ profile'.header = profile.header
            /\ \A k \in 1..Len(profile'.elements) :
                /\ DictHas(profile.elements, profile'.elements[k][1])
                /\ DictGet(profile.elements, profile'.elements[k][1])
                        = profile'.elements[k][2]
       /\ (pc = "parsed" /\ profile'.header # profile.header) =>
            /\ last'.op = "write_icc_profile"
            /\ profile'.header
                = [profile.header EXCEPT !.profile_size = profile'.header.profile_size]
      ]_vars

\* a completed remove_copyright call that deleted one element and kept
\* another, the header being the decoded one
C28_Witness ==
    /\ pc = "parsed" /\ last = [op |-> "remove_copyright", err |-> ""]
    /\ Len(profile.elements) = 1
    /\ Len(Decoded.elements) = 2
    /\ profile.header = Decoded.header
    /\ DictGet(Decoded.elements, profile.elements[1][1]) = profile.elements[1][2]

\* C29: after a remove_copyright call that completed, another call completes
\* as well and leaves profile.tag_table, profile.tag_count and
\* profile.elements as the first call left them.
C29_Idempotent ==
    [][(RemoveCopyright /\ last = [op |-> "remove_copyright", err |-> ""])
            => /\ last'.err = ""
               /\ profile'.tag_table = profile.tag_table
               /\ profile'.tag_count = profile.tag_count
               /\ profile'.elements = profile.elements]_vars

\* a first call completed and removed two "cprt" entries with their elements;
\* the call made again on this profile returns it as it is
C29_Witness ==
    /\ pc = "parsed" /\ last = [op |-> "remove_copyright", err |-> ""]
    /\ Len(Decoded.tag_table) = Len(profile.tag_table) + 2
    /\ Len(Decoded.elements) = Len(profile.elements) + 2
    /\ remove_copyright(profile) = [err |-> "", profile |-> profile]

\* C30: for the version a decoded header holds, read from the blob or set by
\* an override "M.m.b" with 0 <= M <= 255 and non-negative m and b,
\* pack_VersionNumber returns 4 bytes, the ones ICCHeader.pack emits at byte 8,
\* from which parse_VersionNumber recovers the same tuple.
C30_VersionBytes ==
    (last.op = "ICCHeader.pack" /\ OverrideTriple(force_version_number) # << >>) =>
        \E r \in {pack_VersionNumber(hdr.profile_version_number)} :
            /\ r.err = "" /\ last.err = ""
            /\ Len(r.bytes) = 4
            /\ SubSeq(output, 9, 12) = r.bytes
            /\ parse_VersionNumber(r.bytes) = hdr.profile_version_number

=============================================================================
